---- MODULE Spec2Model ----
(***************************************************************************)
(* Prism identity discovery engine: the username variation generator      *)
(* (app/lib/platforms.ts), the profile scraper and scorer and the search  *)
(* request handler with its dedup/rank stage (app/api/search/route.ts).   *)
(*                                                                         *)
(* Strings that the code inspects character by character are sequences of *)
(* one-character strings; opaque labels are TLA+ strings.                 *)
(***************************************************************************)
EXTENDS Integers, Sequences, FiniteSets, TLC

VARIABLES
    genInput,     \* the argument of generateVariations
    genOut,       \* the array it returned
    genVariant    \* which generateVariations ran: "none", "v3" or "v1"

genVars == <<genInput, genOut, genVariant>>

VARIABLES
    scMeta,       \* the metadata argument of one scrapeProfile call
    scResp,       \* what the fetch of that call produced
    scResult,     \* the SearchResult the call returned
    scDone        \* whether the call has returned

scVars == <<scMeta, scResp, scResult, scDone>>

VARIABLES
    pc,               \* where the POST handler stands
    apiKey,           \* whether process.env.SERPAPI_API_KEY is set
    request,          \* the parsed request body
    mainVariation,    \* variations[0]
    corePlatforms,    \* target platforms among coreNames
    extraPlatforms,   \* the other target platforms
    discoveryResults, \* per core platform: the pending or resolved searchDiscovery,
                      \* and whether the SerpApi endpoint ever answers its fetch
    scrapeTasks,      \* the core scrapes, in push order
    extraChecks,      \* the extra scrapes, in platform order
    response          \* the NextResponse returned

reqVars == <<pc, apiKey, request, mainVariation, corePlatforms, extraPlatforms,
             discoveryResults, scrapeTasks, extraChecks, response>>

VARIABLES
    ds            \* one searchDiscovery call: its inputs, what the provider
                  \* produced, the URLs it returned

VARIABLES
    ck,           \* one checkUsername call: metadata, what the fetch produced,
                  \* the result
    rk,           \* one run of the dedup/rank stage on a list of results
    ui            \* the state of the search page

auxVars == <<ds, ck, rk, ui>>

(***************************************************************************)
(* Bounds of the model                                                     *)
(***************************************************************************)
MaxLen == 4
MaxLinks == 2

(***************************************************************************)
(* String primitives of JavaScript, as the code uses them                  *)
(***************************************************************************)
Alphabet == {"a", "B", " ", "_", ".", "-"}

MinOf(S) == CHOOSE x \in S : \A y \in S : x <= y
MaxOf(S) == CHOOSE x \in S : \A y \in S : x >= y

BoundedStrings(n) == UNION {[1..k -> Alphabet] : k \in 0..n}

UpperLetters == <<"A","B","C","D","E","F","G","H","I","J","K","L","M",
                  "N","O","P","Q","R","S","T","U","V","W","X","Y","Z">>
LowerLetters == <<"a","b","c","d","e","f","g","h","i","j","k","l","m",
                  "n","o","p","q","r","s","t","u","v","w","x","y","z">>

LowerChar(c) ==
    IF \E i \in 1..Len(UpperLetters) : UpperLetters[i] = c
    THEN LowerLetters[CHOOSE i \in 1..Len(UpperLetters) : UpperLetters[i] = c]
    ELSE c

toLowerCaseIdentity(s) == s
toLowerCase(s) == [i \in 1..Len(s) |-> LowerChar(s[i])]

IsSpace(c) == c = " "

trim(s) ==
    LET keep == {i \in 1..Len(s) : ~IsSpace(s[i])}
    IN IF keep = {} THEN <<>> ELSE SubSeq(s, MinOf(keep), MaxOf(keep))

includes(s, c) == \E i \in 1..Len(s) : s[i] = c

RECURSIVE SkipWs(_, _)
SkipWs(s, i) == IF i <= Len(s) /\ IsSpace(s[i]) THEN SkipWs(s, i + 1) ELSE i

\* s.split(/\s+/) from position i, cur being the token read so far
RECURSIVE SplitWsFrom(_, _, _)
SplitWsFrom(s, i, cur) ==
    IF i > Len(s) THEN <<cur>>
    ELSE IF IsSpace(s[i]) THEN <<cur>> \o SplitWsFrom(s, SkipWs(s, i), <<>>)
    ELSE SplitWsFrom(s, i + 1, Append(cur, s[i]))

splitWhitespace(s) == SplitWsFrom(s, 1, <<>>)

IsHandleSep(c) == c \in {".", "_", "-"}

\* s.split(/[._-]/) from position i: every separator character splits
RECURSIVE SplitSepFrom(_, _, _)
SplitSepFrom(s, i, cur) ==
    IF i > Len(s) THEN <<cur>>
    ELSE IF IsHandleSep(s[i]) THEN <<cur>> \o SplitSepFrom(s, i + 1, <<>>)
    ELSE SplitSepFrom(s, i + 1, Append(cur, s[i]))

splitSeparators(s) == SplitSepFrom(s, 1, <<>>)

RECURSIVE join(_, _)
join(parts, sep) ==
    IF Len(parts) = 0 THEN <<>>
    ELSE IF Len(parts) = 1 THEN parts[1]
    ELSE parts[1] \o sep \o join(Tail(parts), sep)

\* s.replace(/\s+/g, sep)
RECURSIVE ReplaceWsFrom(_, _, _)
ReplaceWsFrom(s, i, sep) ==
    IF i > Len(s) THEN <<>>
    ELSE IF IsSpace(s[i]) THEN sep \o ReplaceWsFrom(s, SkipWs(s, i), sep)
    ELSE <<s[i]>> \o ReplaceWsFrom(s, i + 1, sep)

replaceWhitespace(s, sep) == ReplaceWsFrom(s, 1, sep)

\* Set.prototype.add on a Set kept in insertion order
SetAdd(set, x) == IF \E i \in 1..Len(set) : set[i] = x THEN set ELSE Append(set, x)

RECURSIVE SetAddAll(_, _)
SetAddAll(set, xs) ==
    IF Len(xs) = 0 THEN set ELSE SetAddAll(SetAdd(set, Head(xs)), Tail(xs))

\* Array.prototype.slice(0, n)
sliceNoLimit(arr, n) == arr
slice(arr, n) == SubSeq(arr, 1, IF Len(arr) < n THEN Len(arr) ELSE n)

(***************************************************************************)
(* generateVariations, the v3.0 generator (platforms.ts 144-178)           *)
(***************************************************************************)
VariationLimit == 12
VariationLimitV1 == 10

separators == << <<".">>, <<"_">>, <<"-">> >>
prefixes == << <<"t","h","e">>, <<"r","e","a","l">>,
               <<"o","f","f","i","c","i","a","l">>, <<"i","a","m">> >>
suffixes == << <<"o","f","f","i","c","i","a","l">>, <<"r","e","a","l">>,
               <<"d","e","v">>, <<"h","q">>, <<"a","d","m","i","n">>,
               <<"p","r","o","f","i","l","e">> >>

generateVariations(input) ==
    LET cleaned == trim(toLowerCase(input))
        words == splitWhitespace(cleaned)
        joined == join(words, <<>>)
        \* 1. Direct Joins
        s1 == SetAdd(<<>>, joined)
        \* 2. Standard Separators
        s2 == IF Len(words) > 1
              THEN SetAddAll(s1, [i \in 1..Len(separators) |-> join(words, separators[i])])
              ELSE s1
        \* 3. Professional & Identity Tokens
        s3 == SetAddAll(s2, [i \in 1..Len(prefixes) |-> prefixes[i] \o joined])
        s4 == SetAddAll(s3, [i \in 1..Len(suffixes) |-> joined \o suffixes[i]])
        \* 4. Case-aware tokenization (for already stylized inputs)
        parts == splitSeparators(toLowerCase(input))
        s5 == IF (includes(input, "_") \/ includes(input, ".")) /\ Len(parts) > 1
              THEN SetAddAll(SetAdd(s4, join(parts, <<>>)),
                             [i \in 1..Len(separators) |-> join(parts, separators[i])])
              ELSE s4
    IN slice(s5, VariationLimit)

(***************************************************************************)
(* generateVariations, the first generator (platforms.ts 50-74)            *)
(***************************************************************************)
suffixesV1 == << <<"o","f","f","i","c","i","a","l">>, <<"1","2","3">>,
                 <<"r","e","a","l">>, <<"h","q">> >>

\* suffixes.forEach(suffix => { add(joined + suffix); add(underscored + "_" + suffix) })
RECURSIVE AddSuffixesV1(_, _, _)
AddSuffixesV1(set, cleaned, sfx) ==
    IF Len(sfx) = 0 THEN set
    ELSE AddSuffixesV1(
            SetAdd(SetAdd(set, replaceWhitespace(cleaned, <<>>) \o Head(sfx)),
                   replaceWhitespace(cleaned, <<"_">>) \o <<"_">> \o Head(sfx)),
            cleaned, Tail(sfx))

generateVariationsV1(input) ==
    LET cleaned == trim(toLowerCase(input))
        \* Original
        s1 == SetAdd(<<>>, cleaned)
        \* Remove spaces
        s2 == SetAdd(s1, replaceWhitespace(cleaned, <<>>))
        \* Replace spaces with common separators
        s3 == SetAdd(s2, replaceWhitespace(cleaned, <<".">>))
        s4 == SetAdd(s3, replaceWhitespace(cleaned, <<"_">>))
        s5 == SetAdd(s4, replaceWhitespace(cleaned, <<"-">>))
        \* Add common suffixes
        s6 == AddSuffixesV1(s5, cleaned, suffixesV1)
    IN slice(s6, VariationLimitV1)

(***************************************************************************)
(* scrapeProfile (route.ts 316-441): fetch one profile page and score it   *)
(***************************************************************************)
\* An optional string of a JSON body or of an HTML attribute
Undef == [def |-> FALSE, s |-> <<>>]
Str(x) == [def |-> TRUE, s |-> x]
\* JavaScript truthiness of an optional string
TruthyWhenDefined(o) == o.def
Truthy(o) == o.def /\ o.s # <<>>
\* a || b on optional strings
OrElse(a, b) == IF Truthy(a) THEN a ELSE b

\* String.prototype.includes with a string argument
IncludesSeq(hay, needle) ==
    \E i \in 0..(Len(hay) - Len(needle)) : SubSeq(hay, i + 1, i + Len(needle)) = needle

Digits == <<"0","1","2","3","4","5","6","7","8","9">>
IsDigit(c) == \E i \in 1..Len(Digits) : Digits[i] = c
DigitVal(c) == (CHOOSE i \in 1..Len(Digits) : Digits[i] = c) - 1

NaN == -1

\* parseInt(s): the value of the leading run of digits, NaN when there is none
RECURSIVE ParseDigits(_, _, _)
ParseDigits(s, i, acc) ==
    IF i <= Len(s) /\ IsDigit(s[i]) THEN ParseDigits(s, i + 1, 10 * acc + DigitVal(s[i]))
    ELSE acc
parseInt(s) == IF Len(s) > 0 /\ IsDigit(s[1]) THEN ParseDigits(s, 1, 0) ELSE NaN

\* text.match(/\d+/g): the maximal runs of digits, left to right
RECURSIVE SkipDigits(_, _)
SkipDigits(s, i) == IF i <= Len(s) /\ IsDigit(s[i]) THEN SkipDigits(s, i + 1) ELSE i
RECURSIVE MatchDigitsFrom(_, _)
MatchDigitsFrom(s, i) ==
    IF i > Len(s) THEN <<>>
    ELSE IF IsDigit(s[i])
         THEN <<SubSeq(s, i, SkipDigits(s, i) - 1)>> \o MatchDigitsFrom(s, SkipDigits(s, i))
         ELSE MatchDigitsFrom(s, i + 1)
matchDigits(s) == MatchDigitsFrom(s, 1)

soft404Markers == <<
    <<"p","a","g","e"," ","n","o","t"," ","f","o","u","n","d">>,
    <<"u","s","e","r"," ","n","o","t"," ","f","o","u","n","d">>,
    <<"n","o","t"," ","f","o","u","n","d">>,
    <<"d","o","e","s","n","'","t"," ","e","x","i","s","t">>,
    <<"d","o","e","s"," ","n","o","t"," ","e","x","i","s","t">>,
    <<"c","o","u","l","d","n","'","t"," ","f","i","n","d">>,
    <<"e","r","r","o","r"," ","4","0","4">>,
    <<"l","o","g","i","n"," ","bullet"," ","i","n","s","t","a","g","r","a","m">>,
    <<"l","o","g"," ","i","n"," ","t","o"," ","t","w","i","t","t","e","r">>,
    <<"l","o","g","i","n"," ","o","n"," ","t","w","i","t","t","e","r">>,
    <<"c","r","e","a","t","e"," ","a","n"," ","a","c","c","o","u","n","t"," ","o","r"," ","l","o","g"," ","i","n">> >>

personMarkers == <<
    <<"p","r","o","f","i","l","e">>,
    <<"j","o","i","n","e","d">>,
    <<"f","o","l","l","o","w","e","r">>,
    <<"f","o","l","l","o","w","i","n","g">>,
    <<"p","o","s","t","s">>,
    <<"b","i","o">>,
    <<"s","o","c","i","a","l">>,
    <<"m","e","m","b","e","r">> >>

RestrictedConfidence == 50
BaseConfidenceAsRestricted == RestrictedConfidence
BaseConfidence == 30
GenderBonus == 15
LocationBonusAsGender == GenderBonus
LocationBonus == 35
AgeBonus == 25
PersonBonusAsGender == GenderBonus
PersonBonus == 10
MaxConfidence == 100
MinAgeSanity == 12
BodyWindow == 1000
BioLimit == 200

Unspecified == <<"u","n","s","p","e","c","i","f","i","e","d">>
DefaultMinAge == <<"0">>
DefaultMaxAge == <<"1","0","0">>

\* platform.url.replace('{}', username): the template is cut at its placeholder
MakeUrl(platform, username) == platform.pre \o username \o platform.post

\* $('body').text().toLowerCase().slice(0, 1000) of a body given as pad filler
\* characters followed by text
BodyHead(body) ==
    IF body.pad >= BodyWindow THEN <<>>
    ELSE slice(toLowerCase(body.text), BodyWindow - body.pad)

isSoft404TitleOnly(pageTitle, pageContent) ==
    \E i \in 1..Len(soft404Markers) : IncludesSeq(pageTitle, soft404Markers[i])
isSoft404(pageTitle, pageContent) ==
    \E i \in 1..Len(soft404Markers) :
        \/ IncludesSeq(pageTitle, soft404Markers[i])
        \/ IncludesSeq(pageContent, soft404Markers[i])

locationMatched(metadata, lowBio, lowTitle) ==
    /\ Truthy(metadata.location)
    /\ \/ IncludesSeq(lowBio, toLowerCase(metadata.location.s))
       \/ IncludesSeq(lowTitle, toLowerCase(metadata.location.s))

ageMatched(metadata, lowBio, lowTitle) ==
    /\ Truthy(metadata.minAge) \/ Truthy(metadata.maxAge)
    /\ LET min == parseInt(OrElse(metadata.minAge, Str(DefaultMinAge)).s)
           max == parseInt(OrElse(metadata.maxAge, Str(DefaultMaxAge)).s)
           numbers == matchDigits(lowBio \o <<" ">> \o lowTitle)
       IN \E k \in 1..Len(numbers) :
             LET val == parseInt(numbers[k])
             IN /\ min # NaN /\ max # NaN
                /\ val >= min /\ val <= max /\ val > MinAgeSanity

genderMatched(metadata, lowBio, lowTitle) ==
    /\ Truthy(metadata.gender)
    /\ metadata.gender.s # Unspecified
    /\ \/ IncludesSeq(lowBio, metadata.gender.s)
       \/ IncludesSeq(lowTitle, metadata.gender.s)

personMarked(lowBio, lowTitle) ==
    \E i \in 1..Len(personMarkers) :
        \/ IncludesSeq(lowBio, personMarkers[i])
        \/ IncludesSeq(lowTitle, personMarkers[i])

capUncapped(c) == c
cap(c) == IF c < MaxConfidence THEN c ELSE MaxConfidence

notFoundAsFound(platform, username) ==
    [platform |-> platform.name, url |-> MakeUrl(platform, username), found |-> TRUE,
     username |-> username, category |-> platform.category, confidence |-> BaseConfidence,
     scrapedBio |-> <<>>, matchReasons |-> <<"Profile Discovery">>]
notFoundResult(platform, username) ==
    [platform |-> platform.name, url |-> MakeUrl(platform, username), found |-> FALSE,
     username |-> username, category |-> platform.category, confidence |-> 0,
     scrapedBio |-> <<>>, matchReasons |-> <<>>]

restrictedAsNotFound(platform, username) == notFoundResult(platform, username)
restrictedResult(platform, username) ==
    [platform |-> platform.name, url |-> MakeUrl(platform, username), found |-> TRUE,
     username |-> username, category |-> platform.category,
     confidence |-> RestrictedConfidence, scrapedBio |-> <<"Private Profile">>,
     matchReasons |-> <<"Platform restricted access (Profile likely exists)">>]

\* og:description || description || twitter:description || ''
bioOf(resp) ==
    OrElse(resp.ogDescription,
        OrElse(resp.metaDescription,
            OrElse(resp.twitterDescription, Str(<<>>)))).s

scoredResult(platform, username, metadata, resp) ==
    LET pageTitle == toLowerCase(resp.title)
        scrapedBio == bioOf(resp)
        lowBio == toLowerCase(scrapedBio)
        lowTitle == pageTitle
        loc == locationMatched(metadata, lowBio, lowTitle)
        age == ageMatched(metadata, lowBio, lowTitle)
        gen == genderMatched(metadata, lowBio, lowTitle)
        per == personMarked(lowBio, lowTitle)
        confidence == BaseConfidence
                      + (IF loc THEN LocationBonus ELSE 0)
                      + (IF age THEN AgeBonus ELSE 0)
                      + (IF gen THEN GenderBonus ELSE 0)
                      + (IF per THEN PersonBonus ELSE 0)
        matchReasons == <<"Profile Discovery">>
                        \o (IF loc THEN <<"Verified Location Match">> ELSE <<>>)
                        \o (IF age THEN <<"Age Range Affinity Verified">> ELSE <<>>)
                        \o (IF gen THEN <<"Gender Consistency">> ELSE <<>>)
    IN [platform |-> platform.name, url |-> MakeUrl(platform, username), found |-> TRUE,
        username |-> username, category |-> platform.category,
        confidence |-> cap(confidence), scrapedBio |-> slice(scrapedBio, BioLimit),
        matchReasons |-> matchReasons]

\* resp is what fetch produced: kind "error" (fetch rejected: network failure or
\* the 10 s AbortSignal), "readError" (response.text() or the parse threw) or "http"
scrapeProfile(platform, username, metadata, resp) ==
    IF resp.kind # "http" THEN notFoundResult(platform, username)
    ELSE IF resp.status = 404 THEN notFoundResult(platform, username)
    ELSE IF resp.status # 200
         THEN IF resp.status = 403 \/ resp.status = 401
              THEN restrictedResult(platform, username)
              ELSE notFoundResult(platform, username)
    ELSE IF isSoft404(toLowerCase(resp.title), BodyHead(resp.body))
         THEN notFoundResult(platform, username)
    ELSE scoredResult(platform, username, metadata, resp)

(***************************************************************************)
(* The platform registry (platforms.ts 96-138), a sample in registry order *)
(***************************************************************************)
Https == <<"h","t","t","p","s",":","/","/">>

platforms == <<
    [name |-> "Instagram", host |-> <<"w","w","w",".","i","n","s","t","a","g","r","a","m",".","c","o","m">>,
     pre |-> Https \o <<"w","w","w",".","i","n","s","t","a","g","r","a","m",".","c","o","m","/">>, post |-> <<"/">>,
     category |-> "social"],
    [name |-> "Twitter/X", host |-> <<"t","w","i","t","t","e","r",".","c","o","m">>,
     pre |-> Https \o <<"t","w","i","t","t","e","r",".","c","o","m","/">>, post |-> <<>>,
     category |-> "social"],
    [name |-> "GitHub", host |-> <<"g","i","t","h","u","b",".","c","o","m">>,
     pre |-> Https \o <<"g","i","t","h","u","b",".","c","o","m","/">>, post |-> <<>>,
     category |-> "professional"] >>

coreNames == {"Instagram", "Facebook", "Twitter/X", "YouTube"}

(***************************************************************************)
(* searchDiscovery (route.ts 282-311)                                      *)
(***************************************************************************)
DiscoveryCap == 2

\* the link as the string the provider sent
RECURSIVE PathString(_)
PathString(path) ==
    IF Len(path) = 0 THEN <<>> ELSE <<"/">> \o Head(path) \o PathString(Tail(path))

LinkString(link) == <<"h","t","t","p","s",":","/","/">> \o link.host \o PathString(link.path)

\* link.includes(domain): the domain anywhere in the string
linkIncludes(link, domain) == IncludesSeq(LinkString(link), domain)

\* out is what the SerpApi call produced: kind "throw" (fetch or json() rejected,
\* or the payload is malformed), "errorPayload" (data.error set) or "ok"
searchDiscoveryWithoutKey(out, platform, key) ==
    IF out.kind = "throw" THEN <<>>
    ELSE IF out.kind = "errorPayload" THEN <<>>
    ELSE slice(SelectSeq(out.links, LAMBDA l : linkIncludes(l, platform.host)),
               DiscoveryCap)
searchDiscovery(out, platform, key) ==
    IF ~key THEN <<>>
    ELSE IF out.kind = "throw" THEN <<>>
    ELSE IF out.kind = "errorPayload" THEN <<>>
    ELSE slice(SelectSeq(out.links, LAMBDA l : linkIncludes(l, platform.host)),
               DiscoveryCap)

\* url.split('/').filter(Boolean), then the last part
lastPart(link) ==
    LET parts == << <<"h","t","t","p","s",":">>, link.host >> \o link.path
    IN parts[Len(parts)]

(***************************************************************************)
(* The dedup/rank stage of POST (route.ts 498-510)                         *)
(***************************************************************************)
ResultCap == 35
PublishThreshold == 30

filterNothing(allResults) == allResults
validResults(allResults) ==
    SelectSeq(allResults, LAMBDA r : r.found /\ r.confidence >= PublishThreshold)

\* Array.prototype.sort((a, b) => b.confidence - a.confidence): stable
InsertByConfidence(sorted, r) ==
    LET k == Cardinality({i \in 1..Len(sorted) : sorted[i].confidence >= r.confidence})
    IN SubSeq(sorted, 1, k) \o <<r>> \o SubSeq(sorted, k + 1, Len(sorted))

RECURSIVE SortInto(_, _)
SortInto(sorted, rest) ==
    IF Len(rest) = 0 THEN sorted
    ELSE SortInto(InsertByConfidence(sorted, Head(rest)), Tail(rest))

sortByConfidence(arr) == SortInto(<<>>, arr)

\* r.platform + r.url
dedupKey(r) == <<r.platform, r.url>>

\* new Map(entries): a later entry of a key replaces the value, at the key's place
MapSet(map, r) ==
    IF \E i \in 1..Len(map) : dedupKey(map[i]) = dedupKey(r)
    THEN [i \in 1..Len(map) |-> IF dedupKey(map[i]) = dedupKey(r) THEN r ELSE map[i]]
    ELSE Append(map, r)

RECURSIVE MapFrom(_, _)
MapFrom(map, entries) ==
    IF Len(entries) = 0 THEN map ELSE MapFrom(MapSet(map, Head(entries)), Tail(entries))

uniqueRanked(allResults) == MapFrom(<<>>, sortByConfidence(validResults(allResults)))

rankStageUncapped(allResults) == uniqueRanked(allResults)
rankStage(allResults) == slice(uniqueRanked(allResults), ResultCap)

(***************************************************************************)
(* Inputs of the model                                                     *)
(***************************************************************************)
NoList == [def |-> FALSE, list |-> <<>>]
List(l) == [def |-> TRUE, list |-> l]

Malformed == [ok |-> FALSE, query |-> Undef, minAge |-> Undef, maxAge |-> Undef,
              gender |-> Undef, location |-> Undef, platforms |-> NoList]

Queries == {Undef, Str(<<>>), Str(<<"a"," ","B">>)}

PlatformFilters == {NoList, List(<<>>), List(<<"Instagram">>), List(<<"GitHub">>),
                    List(<<"GitHub", "Instagram">>)}

Bodies == {Malformed} \cup
    [ok : {TRUE}, query : Queries, minAge : {Undef}, maxAge : {Undef},
     gender : {Undef}, location : {Undef, Str(<<"L","o","n","d","o","n">>)},
     platforms : PlatformFilters]

\* candidate links of a SerpApi answer for one platform: the profile of the
\* queried handle, a post of it (Instagram) or another profile, another site
LinksOf(platform) ==
    {[host |-> platform.host, path |-> << <<"a","b">> >>],
     [host |-> platform.host,
      path |-> IF platform.name = "Instagram" THEN << <<"p">>, <<"a","b">> >>
                                              ELSE << <<"c","d">> >>],
     [host |-> <<"e","x","a","m","p","l","e",".","c","o","m">>, path |-> << <<"a","b">> >>]}

SerpOutcomes(platform) ==
    {[kind |-> "throw", links |-> <<>>], [kind |-> "errorPayload", links |-> <<>>]}
    \cup {[kind |-> "ok", links |-> l] :
            l \in UNION {[1..k -> LinksOf(platform)] : k \in 0..MaxLinks}}

EmptyBody == [pad |-> 0, text |-> <<>>]
BlankPage(kind, status) ==
    [kind |-> kind, status |-> status, title |-> <<>>, body |-> EmptyBody,
     ogDescription |-> Undef, metaDescription |-> Undef, twitterDescription |-> Undef]

\* what the fetch of a profile page can produce in a request
PageOutcomes ==
    {BlankPage("error", 0), BlankPage("http", 404), BlankPage("http", 403),
     BlankPage("http", 200),
     [BlankPage("http", 200) EXCEPT !.title = <<"L","o","n","d","o","n">>]}

NoResult == [platform |-> "", url |-> <<>>, found |-> FALSE,
             username |-> <<>>, category |-> "", confidence |-> 0,
             scrapedBio |-> <<>>, matchReasons |-> <<>>]

NoResponse == [status |-> 0, error |-> "", results |-> <<>>]

(***************************************************************************)
(* POST (route.ts 443-516)                                                 *)
(***************************************************************************)
metadataOf(body) ==
    [minAge |-> body.minAge, maxAge |-> body.maxAge, gender |-> body.gender,
     location |-> body.location, query |-> body.query]

targetPlatformsAll(body) == platforms
\* requestedPlatforms ? platforms.filter(p => requestedPlatforms.includes(p.name)) : platforms
targetPlatforms(body) ==
    IF body.platforms.def
    THEN SelectSeq(platforms,
            LAMBDA p : \E i \in 1..Len(body.platforms.list) : body.platforms.list[i] = p.name)
    ELSE platforms

ReqInit ==
    /\ pc = "idle"
    /\ apiKey \in BOOLEAN
    /\ request = Malformed
    /\ mainVariation = <<>>
    /\ corePlatforms = <<>>
    /\ extraPlatforms = <<>>
    /\ discoveryResults = <<>>
    /\ scrapeTasks = <<>>
    /\ extraChecks = <<>>
    /\ response = NoResponse

ReqIdle ==
    /\ pc = "off"
    /\ apiKey = FALSE
    /\ request = Malformed
    /\ mainVariation = <<>>
    /\ corePlatforms = <<>>
    /\ extraPlatforms = <<>>
    /\ discoveryResults = <<>>
    /\ scrapeTasks = <<>>
    /\ extraChecks = <<>>
    /\ response = NoResponse

\* request.json() rejects: the outer catch answers 500
ReceiveMalformed ==
    /\ pc = "idle"
    /\ request' = Malformed
    /\ response' = [status |-> 500, error |-> "Scraping engine failure", results |-> <<>>]
    /\ pc' = "done"
    /\ UNCHANGED <<apiKey, mainVariation, corePlatforms, extraPlatforms,
                   discoveryResults, scrapeTasks, extraChecks>>

\* if (!query) return 400
ReceiveInvalid ==
    /\ pc = "idle"
    /\ \E body \in Bodies :
        /\ body.ok
        /\ ~Truthy(body.query)
        /\ request' = body
    /\ response' = [status |-> 400, error |-> "Identity query required", results |-> <<>>]
    /\ pc' = "done"
    /\ UNCHANGED <<apiKey, mainVariation, corePlatforms, extraPlatforms,
                   discoveryResults, scrapeTasks, extraChecks>>

\* whether the endpoint of fetch(searchUrl) ever answers; without a key no
\* fetch is made
EndpointAnswers(key) == IF key THEN BOOLEAN ELSE {TRUE}

\* the handler up to the first await: variations, target platforms, discovery started
Receive ==
    /\ pc = "idle"
    /\ \E body \in Bodies :
        /\ body.ok
        /\ Truthy(body.query)
        /\ request' = body
        /\ mainVariation' = generateVariations(body.query.s)[1]
        /\ corePlatforms' = SelectSeq(targetPlatforms(body), LAMBDA p : p.name \in coreNames)
        /\ extraPlatforms' = SelectSeq(targetPlatforms(body), LAMBDA p : p.name \notin coreNames)
        /\ discoveryResults' \in
              [1..Len(SelectSeq(targetPlatforms(body), LAMBDA p : p.name \in coreNames))
                 -> [done : {FALSE}, urls : {<<>>}, answers : EndpointAnswers(apiKey)]]
    /\ pc' = "discovery"
    /\ UNCHANGED <<apiKey, scrapeTasks, extraChecks, response>>

\* one searchDiscovery promise resolves: at once without a key, else when
\* fetch(searchUrl), which carries no AbortSignal, settles
DiscoveryComplete ==
    /\ pc = "discovery"
    /\ \E i \in 1..Len(discoveryResults) :
        /\ ~discoveryResults[i].done
        /\ discoveryResults[i].answers
        /\ \E out \in SerpOutcomes(corePlatforms[i]) :
              discoveryResults' = [discoveryResults EXCEPT ![i] =
                  [@ EXCEPT !.done = TRUE,
                            !.urls = searchDiscovery(out, corePlatforms[i], apiKey)]]
    /\ UNCHANGED <<pc, apiKey, request, mainVariation, corePlatforms, extraPlatforms,
                   scrapeTasks, extraChecks, response>>

\* the scrape tasks pushed for one discovery result
tasksForBoth(platform, urls, fallback) ==
    [k \in 1..Len(urls) |->
        [platform |-> platform, username |-> lastPart(urls[k]),
         done |-> FALSE, result |-> NoResult]]
    \o << [platform |-> platform, username |-> fallback,
            done |-> FALSE, result |-> NoResult] >>
tasksForFirstUrl(platform, urls, fallback) ==
    << [platform |-> platform,
        username |-> IF Len(urls) > 0 THEN lastPart(urls[1]) ELSE fallback,
        done |-> FALSE, result |-> NoResult] >>
tasksFor(platform, urls, fallback) ==
    IF Len(urls) > 0
    THEN [k \in 1..Len(urls) |->
            [platform |-> platform, username |-> lastPart(urls[k]),
             done |-> FALSE, result |-> NoResult]]
    ELSE << [platform |-> platform, username |-> fallback,
             done |-> FALSE, result |-> NoResult] >>

RECURSIVE buildScrapeTasks(_, _, _)
buildScrapeTasks(core, discovered, fallback) ==
    IF Len(core) = 0 THEN <<>>
    ELSE tasksFor(Head(core), Head(discovered).urls, fallback)
         \o buildScrapeTasks(Tail(core), Tail(discovered), fallback)

AnyDone(tasks) == Len(tasks) = 0 \/ \E i \in 1..Len(tasks) : tasks[i].done
AllDone(tasks) == \A i \in 1..Len(tasks) : tasks[i].done

\* Promise.all(discovery) resolved: the core scrapes are pushed
StartScrape ==
    /\ pc = "discovery"
    /\ AllDone(discoveryResults)
    /\ scrapeTasks' = buildScrapeTasks(corePlatforms, discoveryResults, mainVariation)
    /\ pc' = "coreScrape"
    /\ UNCHANGED <<apiKey, request, mainVariation, corePlatforms, extraPlatforms,
                   discoveryResults, extraChecks, response>>

\* one core scrapeProfile promise resolves
ScrapeComplete ==
    /\ pc = "coreScrape"
    /\ \E i \in 1..Len(scrapeTasks) :
        /\ ~scrapeTasks[i].done
        /\ \E resp \in PageOutcomes :
              scrapeTasks' = [scrapeTasks EXCEPT ![i] =
                  [@ EXCEPT !.done = TRUE,
                            !.result = scrapeProfile(scrapeTasks[i].platform,
                                          scrapeTasks[i].username, metadataOf(request), resp)]]
    /\ UNCHANGED <<pc, apiKey, request, mainVariation, corePlatforms, extraPlatforms,
                   discoveryResults, extraChecks, response>>

\* Promise.all(scrapeTasks) resolved: the extra platforms are scraped
StartExtra ==
    /\ pc = "coreScrape"
    /\ AllDone(scrapeTasks)
    /\ extraChecks' = [j \in 1..Len(extraPlatforms) |->
            [platform |-> extraPlatforms[j], username |-> mainVariation,
             done |-> FALSE, result |-> NoResult]]
    /\ pc' = "extraScrape"
    /\ UNCHANGED <<apiKey, request, mainVariation, corePlatforms, extraPlatforms,
                   discoveryResults, scrapeTasks, response>>

\* one extra scrapeProfile promise resolves
ExtraComplete ==
    /\ pc = "extraScrape"
    /\ \E j \in 1..Len(extraChecks) :
        /\ ~extraChecks[j].done
        /\ \E resp \in PageOutcomes :
              extraChecks' = [extraChecks EXCEPT ![j] =
                  [@ EXCEPT !.done = TRUE,
                            !.result = scrapeProfile(extraChecks[j].platform,
                                          extraChecks[j].username, metadataOf(request), resp)]]
    /\ UNCHANGED <<pc, apiKey, request, mainVariation, corePlatforms, extraPlatforms,
                   discoveryResults, scrapeTasks, response>>

resultsOfFailFast(tasks) ==
    IF \E i \in 1..Len(tasks) : ~tasks[i].result.found THEN <<>>
    ELSE [i \in 1..Len(tasks) |-> tasks[i].result]
resultsOf(tasks) == [i \in 1..Len(tasks) |-> tasks[i].result]

\* [...coreResults, ...extraResults]
allResults == resultsOf(scrapeTasks) \o resultsOf(extraChecks)

\* Promise.all(extraChecks) resolved: filter, rank, deduplicate, answer
Respond ==
    /\ pc = "extraScrape"
    /\ AllDone(extraChecks)
    /\ response' = [status |-> 200, error |-> "", results |-> rankStage(allResults)]
    /\ pc' = "done"
    /\ UNCHANGED <<apiKey, request, mainVariation, corePlatforms, extraPlatforms,
                   discoveryResults, scrapeTasks, extraChecks>>

(***************************************************************************)
(* Specification of scrapeProfile alone: one call on bounded inputs        *)
(***************************************************************************)
Titles == {<<>>, <<"P","a","g","e"," ","N","o","t"," ","F","o","u","n","d">>,
           <<"A","n","n",","," ","2","5">>,
           <<"P","r","o","f","i","l","e"," ","o","f"," ","A","n","n">>}

PageBodies == {EmptyBody,
               [pad |-> 0, text |-> <<"U","s","e","r"," ","n","o","t"," ","f","o","u","n","d">>],
               [pad |-> 990, text |-> <<"U","s","e","r"," ","n","o","t"," ","f","o","u","n","d">>],
               [pad |-> 1000, text |-> <<"U","s","e","r"," ","n","o","t"," ","f","o","u","n","d">>]}

OgDescriptions == {Undef, Str(<<>>),
                   Str(<<"F","e","m","a","l","e",","," ","2","5",","," ","L","o","n","d","o","n">>),
                   Str(<<"m","a","l","e"," ","f","o","l","l","o","w","e","r"," ","7">>)}
MetaDescriptions == {Undef, Str(<<"L","o","n","d","o","n">>)}
TwitterDescriptions == {Undef, Str(<<"9"," ","p","o","s","t","s">>)}

Statuses == {200, 204, 401, 403, 404, 500}

\* a page that comes with a non-200 status and still carries content
ContentPage(status) ==
    [BlankPage("http", status) EXCEPT
        !.title = <<"P","r","o","f","i","l","e"," ","o","f"," ","A","n","n">>,
        !.ogDescription =
            Str(<<"F","e","m","a","l","e",","," ","2","5",","," ","L","o","n","d","o","n">>)]

FetchOutcomes ==
    {BlankPage("error", 0)}
    \cup {BlankPage("http", s) : s \in Statuses \ {200}}
    \cup {ContentPage(s) : s \in Statuses \ {200}}
    \cup [kind : {"http", "readError"}, status : {200}, title : Titles, body : PageBodies,
          ogDescription : OgDescriptions, metaDescription : MetaDescriptions,
          twitterDescription : TwitterDescriptions]

Metadatas ==
    [minAge : {Undef, Str(<<"1","8">>), Str(<<"x">>)},
     maxAge : {Str(<<>>), Str(<<"3","0">>)},
     gender : {Undef, Str(Unspecified), Str(<<"m","a","l","e">>)},
     location : {Undef, Str(<<>>), Str(<<"L","o","n","d","o","n">>)},
     query : {Str(<<"a","b">>), Str(<<"z","z">>)}]

ScInit ==
    /\ scMeta \in Metadatas
    /\ scResp \in FetchOutcomes
    /\ scResult = NoResult
    /\ scDone = FALSE

ScIdle ==
    /\ scMeta = [minAge |-> Undef, maxAge |-> Undef, gender |-> Undef,
                 location |-> Undef, query |-> Undef]
    /\ scResp = BlankPage("error", 0)
    /\ scResult = NoResult
    /\ scDone = TRUE

CallScrapeProfile ==
    /\ ~scDone
    /\ scResult' = scrapeProfile(platforms[1], <<"a","b">>, scMeta, scResp)
    /\ scDone' = TRUE
    /\ UNCHANGED <<scMeta, scResp>>

(***************************************************************************)
(* Specification of the generator: one call on a bounded query             *)
(***************************************************************************)
GenInit ==
    /\ genInput \in BoundedStrings(MaxLen)
    /\ genOut = <<>>
    /\ genVariant = "none"

GenIdle ==
    /\ genInput = <<>>
    /\ genOut = <<>>
    /\ genVariant = "none"

CallGenerateVariations ==
    /\ genVariant = "none"
    /\ genOut' = generateVariations(genInput)
    /\ genVariant' = "v3"
    /\ UNCHANGED genInput

CallGenerateVariationsV1 ==
    /\ genVariant = "none"
    /\ genOut' = generateVariationsV1(genInput)
    /\ genVariant' = "v1"
    /\ UNCHANGED genInput

(***************************************************************************)
(* Specification of searchDiscovery alone: one call on a bounded answer    *)
(***************************************************************************)
MaxDiscoveryLinks == 3

OtherHost == <<"e","x","a","m","p","l","e",".","c","o","m">>

\* links a SerpApi answer can carry for a platform: profiles, a post, the
\* search and login pages, another site, another site naming the domain
DiscoveryLinks(platform) ==
    {[host |-> platform.host, path |-> << <<"a","b">> >>],
     [host |-> platform.host, path |-> << <<"p">>, <<"a","b">> >>],
     [host |-> platform.host, path |-> << <<"s","e","a","r","c","h">> >>],
     [host |-> platform.host, path |-> << <<"a","c","c","o","u","n","t","s">>,
                                           <<"l","o","g","i","n">> >>],
     [host |-> OtherHost, path |-> << <<"a","b">> >>],
     [host |-> OtherHost, path |-> << platform.host >>]}

DiscoveryOutcomes(platform) ==
    {[kind |-> "throw", links |-> <<>>]}
    \cup {[kind |-> k, links |-> l] :
            k \in {"errorPayload", "ok"},
            l \in UNION {[1..n -> DiscoveryLinks(platform)] : n \in 0..MaxDiscoveryLinks}}

CorePlatformsOfRegistry == SelectSeq(platforms, LAMBDA p : p.name \in coreNames)

DsInit ==
    \E key \in BOOLEAN : \E i \in 1..Len(CorePlatformsOfRegistry) :
        \E out \in DiscoveryOutcomes(CorePlatformsOfRegistry[i]) :
            ds = [key |-> key, platform |-> CorePlatformsOfRegistry[i], out |-> out,
                  urls |-> <<>>, done |-> FALSE]

DsIdle ==
    ds = [key |-> FALSE, platform |-> platforms[1],
          out |-> [kind |-> "throw", links |-> <<>>], urls |-> <<>>, done |-> TRUE]

CallSearchDiscovery ==
    /\ ~ds.done
    /\ ds' = [ds EXCEPT !.urls = searchDiscovery(ds.out, ds.platform, ds.key),
                        !.done = TRUE]

(***************************************************************************)
(* checkUsername (part_002 16-67): the existence check of the first engine *)
(***************************************************************************)
\* String.prototype.includes(x) of an optional string: undefined is coerced
Coerced(o) == IF o.def THEN o.s ELSE <<"u","n","d","e","f","i","n","e","d">>

checkNotFound(platform, username) ==
    [platform |-> platform.name, url |-> MakeUrl(platform, username), found |-> FALSE,
     username |-> username, category |-> platform.category, confidence |-> 0,
     matchReasons |-> <<>>]

\* resp is what fetch produced: kind "error" (fetch rejected, or the abort
\* after 6 s), "readError" (response.text() rejected) or "http"
checkUsername(platform, username, metadata, resp) ==
    IF resp.kind = "error" THEN checkNotFound(platform, username)
    ELSE IF resp.status < 200 \/ resp.status >= 400 THEN checkNotFound(platform, username)
    ELSE IF resp.kind = "readError" THEN checkNotFound(platform, username)
    ELSE
      LET lowBody == toLowerCase(resp.body)
          loc == /\ Truthy(metadata.location)
                 /\ IncludesSeq(lowBody, toLowerCase(metadata.location.s))
          age == /\ Truthy(metadata.age)
                 /\ \/ IncludesSeq(lowBody, <<" ">> \o metadata.age.s \o <<" ">>)
                    \/ IncludesSeq(lowBody, metadata.age.s \o <<" ","y","e","a","r","s">>)
          gen == /\ ~(metadata.gender.def /\ metadata.gender.s = Unspecified)
                 /\ IncludesSeq(lowBody, Coerced(metadata.gender))
          confidence == 40 + (IF loc THEN 30 ELSE 0) + (IF age THEN 20 ELSE 0)
                           + (IF gen THEN 10 ELSE 0)
      IN [platform |-> platform.name, url |-> MakeUrl(platform, username), found |-> TRUE,
          username |-> username, category |-> platform.category,
          confidence |-> cap(confidence),
          matchReasons |-> <<"Username Pattern Match">>
              \o (IF loc THEN <<"Location Fragment Found">> ELSE <<>>)
              \o (IF age THEN <<"Age Reference Detected">> ELSE <<>>)
              \o (IF gen THEN <<"Gender Identifier Context">> ELSE <<>>)]

\* what the fetch of checkUsername can produce
CheckOutcomes ==
    {[kind |-> "error", status |-> 0, body |-> <<>>]}
    \cup [kind : {"http", "readError"},
          status : {199, 200, 204, 302, 399, 400, 404, 500},
          body : {<<>>,
                  <<"L","o","g","i","n">>,
                  <<"P","l","e","a","s","e"," ","s","i","g","n"," ","i","n">>,
                  <<"A","n","n"," ","2","5"," ","y","e","a","r","s"," ",
                    "m","a","l","e"," ","L","o","n","d","o","n">>}]

CheckMetadatas ==
    [age : {Undef, Str(<<"2","5">>)},
     gender : {Undef, Str(Unspecified), Str(<<"m","a","l","e">>)},
     location : {Undef, Str(<<"L","o","n","d","o","n">>)}]

NoCheck == [platform |-> "", url |-> <<>>, found |-> FALSE, username |-> <<>>,
            category |-> "", confidence |-> 0, matchReasons |-> <<>>]

CkInit ==
    \E m \in CheckMetadatas : \E resp \in CheckOutcomes :
        ck = [meta |-> m, resp |-> resp, result |-> NoCheck, done |-> FALSE]

CkIdle ==
    ck = [meta |-> [age |-> Undef, gender |-> Undef, location |-> Undef],
          resp |-> [kind |-> "error", status |-> 0, body |-> <<>>],
          result |-> NoCheck, done |-> TRUE]

CallCheckUsername ==
    /\ ~ck.done
    /\ ck' = [ck EXCEPT !.result = checkUsername(platforms[1], <<"a","b">>, ck.meta, ck.resp),
                        !.done = TRUE]

(***************************************************************************)
(* Specification of the dedup/rank stage alone, on lists long enough for   *)
(* its cap                                                                 *)
(***************************************************************************)
MaxResults == 37

\* the k-th scraped result of a list with keys distinct keys, confidences
\* spread over spread values from 30 up, and every miss-th result not found
SampleResult(k, keys, spread, miss) ==
    [platform |-> "GitHub",
     url |-> <<Digits[((k % keys) \div 10) + 1], Digits[((k % keys) % 10) + 1]>>,
     found |-> (miss = 0 \/ k % miss # 1),
     username |-> <<>>, category |-> "professional",
     confidence |-> IF miss = 0 \/ k % miss # 1 THEN 30 + 5 * ((3 * k) % spread) ELSE 0,
     scrapedBio |-> <<>>, matchReasons |-> <<>>]

RankInputs ==
    {[k \in 1..n |-> SampleResult(k, keys, spread, miss)] :
        n \in 0..MaxResults, keys \in {1, 7, 36}, spread \in {1, 5}, miss \in {0, 3}}

RkInit == \E l \in RankInputs : rk = [input |-> l, output |-> <<>>, done |-> FALSE]

RkIdle == rk = [input |-> <<>>, output |-> <<>>, done |-> TRUE]

CallRankStage ==
    /\ ~rk.done
    /\ rk' = [rk EXCEPT !.output = rankStage(rk.input), !.done = TRUE]

(***************************************************************************)
(* The search page (part_006, and its earlier form part_005): the state    *)
(* hooks, the controls that set them, and handleSearch                     *)
(***************************************************************************)
MaxCalls == 2

\* useState initial values; calls holds the handleSearch invocations that
\* stand at an await, each with what its request will meet
UiIdle ==
    ui = [page |-> "part_006", searchMode |-> "text", searchQuery |-> <<>>,
          imageFile |-> FALSE, isLoading |-> FALSE, results |-> <<>>,
          searchProgress |-> 0, calls |-> <<>>]

UiInit ==
    \E page \in {"part_006", "part_005"} :
        ui = [page |-> page, searchMode |-> "text", searchQuery |-> <<>>,
              imageFile |-> FALSE, isLoading |-> FALSE, results |-> <<>>,
              searchProgress |-> 0, calls |-> <<>>]

\* onChange={(e) => setSearchQuery(e.target.value)}
TypeQuery ==
    \E q \in {<<>>, <<" ">>, <<"a","b">>} :
        /\ q # ui.searchQuery
        /\ ui' = [ui EXCEPT !.searchQuery = q]

\* onClick={() => setSearchMode('text')} and onClick={() => setSearchMode('image')}
SwitchMode ==
    \E mode \in {"text", "image"} :
        /\ mode # ui.searchMode
        /\ ui' = [ui EXCEPT !.searchMode = mode]

\* handleImageUpload
ChooseImage ==
    /\ ~ui.imageFile
    /\ ui' = [ui EXCEPT !.imageFile = TRUE]

\* the value setSearchProgress leaves when handleSearch stops at an await or
\* returns; part_005 has no progress bar
Progress(n) == IF ui.page = "part_006" THEN n ELSE ui.searchProgress

\* a click on the search button runs handleSearch up to its first await. The
\* request it sends is answered with a result list ("ok"), with an error
\* body ("error"), with a body that is not JSON ("notJson"), fails in the
\* network ("reject"), or is never settled: fetch carries no AbortSignal
Click ==
    /\ ui.page = "part_006" => ~ui.isLoading
    /\ ui.searchMode = "text" => trim(ui.searchQuery) # <<>>
    /\ ui.searchMode = "image" => ui.imageFile
    /\ IF ui.page = "part_005" /\ ui.searchMode = "image"
       THEN ui' = [ui EXCEPT !.isLoading = FALSE, !.results = <<>>]
       ELSE /\ Len(ui.calls) < MaxCalls
            /\ \E outcome \in {"ok", "error", "notJson", "reject", "silent"} :
                 ui' = [ui EXCEPT
                          !.isLoading = TRUE, !.results = <<>>,
                          !.searchProgress = Progress(IF ui.searchMode = "text" THEN 30 ELSE 40),
                          !.calls = Append(@, [mode |-> ui.searchMode, step |-> "fetch",
                                               outcome |-> outcome])]

Without(calls, i) == SubSeq(calls, 1, i - 1) \o SubSeq(calls, i + 1, Len(calls))

\* await fetch(...) settles: on a network failure catch and finally run,
\* otherwise handleSearch goes on to await response.json()
FetchSettles ==
    \E i \in 1..Len(ui.calls) :
        /\ ui.calls[i].step = "fetch"
        /\ ui.calls[i].outcome # "silent"
        /\ IF ui.calls[i].outcome = "reject"
           THEN ui' = [ui EXCEPT !.isLoading = FALSE, !.searchProgress = Progress(100),
                                 !.calls = Without(@, i)]
           ELSE ui' = [ui EXCEPT
                         !.searchProgress = Progress(IF ui.calls[i].mode = "text" THEN 60 ELSE 75),
                         !.calls[i].step = "json"]

\* await response.json() settles: setResults(data.results || []) or catch,
\* then finally
JsonSettles ==
    \E i \in 1..Len(ui.calls) :
        /\ ui.calls[i].step = "json"
        /\ ui' = [ui EXCEPT
                    !.results = IF ui.calls[i].outcome = "ok" THEN <<"profile">>
                                ELSE IF ui.calls[i].outcome = "error" THEN <<>>
                                ELSE @,
                    !.isLoading = FALSE, !.searchProgress = Progress(100),
                    !.calls = Without(@, i)]

vars == <<genVars, scVars, reqVars, auxVars>>

\* checkUsername on its own
InitProbe == GenIdle /\ ScIdle /\ ReqIdle /\ DsIdle /\ CkInit /\ RkIdle /\ UiIdle
NextProbe == CallCheckUsername /\ UNCHANGED <<genVars, scVars, reqVars, ds, rk, ui>>

SpecProbe == InitProbe /\ [][NextProbe]_vars

\* the dedup/rank stage on its own
InitRank == GenIdle /\ ScIdle /\ ReqIdle /\ DsIdle /\ CkIdle /\ RkInit /\ UiIdle
NextRank == CallRankStage /\ UNCHANGED <<genVars, scVars, reqVars, ds, ck, ui>>

SpecRank == InitRank /\ [][NextRank]_vars

\* the search page: the user's edits and clicks, and the promises that settle
InitUI == GenIdle /\ ScIdle /\ ReqIdle /\ DsIdle /\ CkIdle /\ RkIdle /\ UiInit
NextUI ==
    \/ TypeQuery /\ UNCHANGED <<genVars, scVars, reqVars, ds, ck, rk>>
    \/ SwitchMode /\ UNCHANGED <<genVars, scVars, reqVars, ds, ck, rk>>
    \/ ChooseImage /\ UNCHANGED <<genVars, scVars, reqVars, ds, ck, rk>>
    \/ Click /\ UNCHANGED <<genVars, scVars, reqVars, ds, ck, rk>>
    \/ FetchSettles /\ UNCHANGED <<genVars, scVars, reqVars, ds, ck, rk>>
    \/ JsonSettles /\ UNCHANGED <<genVars, scVars, reqVars, ds, ck, rk>>

\* a promise that can settle does settle; the user is free to do nothing
SpecUI ==
    /\ InitUI /\ [][NextUI]_vars
    /\ WF_vars(FetchSettles /\ UNCHANGED <<genVars, scVars, reqVars, ds, ck, rk>>)
    /\ WF_vars(JsonSettles /\ UNCHANGED <<genVars, scVars, reqVars, ds, ck, rk>>)

\* searchDiscovery on its own
InitDiscovery == GenIdle /\ ScIdle /\ ReqIdle /\ DsInit /\ CkIdle /\ RkIdle /\ UiIdle
NextDiscovery == CallSearchDiscovery /\ UNCHANGED <<genVars, scVars, reqVars, ck, rk, ui>>

SpecDiscovery == InitDiscovery /\ [][NextDiscovery]_vars

\* the generator on its own
InitGen == GenInit /\ ScIdle /\ ReqIdle /\ DsIdle /\ CkIdle /\ RkIdle /\ UiIdle
NextGen ==
    \/ CallGenerateVariations /\ UNCHANGED <<scVars, reqVars, auxVars>>
    \/ CallGenerateVariationsV1 /\ UNCHANGED <<scVars, reqVars, auxVars>>

SpecGen == InitGen /\ [][NextGen]_vars

\* scrapeProfile on its own
InitScrape == GenIdle /\ ScInit /\ ReqIdle /\ DsIdle /\ CkIdle /\ RkIdle /\ UiIdle
NextScrape == CallScrapeProfile /\ UNCHANGED <<genVars, reqVars, auxVars>>

SpecScrape == InitScrape /\ [][NextScrape]_vars

\* one search request
Init == GenIdle /\ ScIdle /\ ReqInit /\ DsIdle /\ CkIdle /\ RkIdle /\ UiIdle
Next ==
    \/ ReceiveMalformed /\ UNCHANGED <<genVars, scVars, auxVars>>
    \/ ReceiveInvalid /\ UNCHANGED <<genVars, scVars, auxVars>>
    \/ Receive /\ UNCHANGED <<genVars, scVars, auxVars>>
    \/ DiscoveryComplete /\ UNCHANGED <<genVars, scVars, auxVars>>
    \/ StartScrape /\ UNCHANGED <<genVars, scVars, auxVars>>
    \/ ScrapeComplete /\ UNCHANGED <<genVars, scVars, auxVars>>
    \/ StartExtra /\ UNCHANGED <<genVars, scVars, auxVars>>
    \/ ExtraComplete /\ UNCHANGED <<genVars, scVars, auxVars>>
    \/ Respond /\ UNCHANGED <<genVars, scVars, auxVars>>

Spec == Init /\ [][Next]_vars

\* the same request under the event loop's scheduling: a continuation that is
\* ready to run is run
SpecLive == Init /\ [][Next]_vars /\ WF_vars(Next)

(***************************************************************************)
(* Vocabulary of the properties                                            *)
(***************************************************************************)
\* the ASCII characters of URLs in code order: strings compare by code unit
Ascii == <<" ","'",",","-",".","/","0","1","2","3","4","5","6","7","8","9",
           ":","@","A","B","C","D","E","F","G","H","I","J","K","L","M","N",
           "O","P","Q","R","S","T","U","V","W","X","Y","Z","_","a","b","c",
           "d","e","f","g","h","i","j","k","l","m","n","o","p","q","r","s",
           "t","u","v","w","x","y","z">>

CharCode(c) == CHOOSE i \in 1..Len(Ascii) : Ascii[i] = c

\* a < b on strings
LexLess(a, b) ==
    \E k \in 1..(Len(a) + 1) :
        /\ k <= Len(b)
        /\ \A i \in 1..(k - 1) : a[i] = b[i]
        /\ k = Len(a) + 1 \/ CharCode(a[k]) < CharCode(b[k])

Success == pc = "done" /\ response.status = 200

Results == response.results

Permuted(arr, f) == [i \in 1..Len(arr) |-> arr[f[i]]]

Has(seq, x) == \E i \in 1..Len(seq) : seq[i] = x

Distinct(seq) == \A i, j \in 1..Len(seq) : i # j => seq[i] # seq[j]

\* the lowercased query without any whitespace
NoSeparatorJoined(q) ==
    SelectSeq([i \in 1..Len(q) |-> LowerChar(q[i])], LAMBDA c : c # " ")

RECURSIVE DropLeadingSpaces(_)
DropLeadingSpaces(q) ==
    IF Len(q) > 0 /\ Head(q) = " " THEN DropLeadingSpaces(Tail(q)) ELSE q

Reverse(q) == [i \in 1..Len(q) |-> q[Len(q) + 1 - i]]

\* the lowercased query without its outer whitespace
LowerTrimmed(q) ==
    Reverse(DropLeadingSpaces(Reverse(DropLeadingSpaces(
        [i \in 1..Len(q) |-> LowerChar(q[i])]))))

MultiToken(q) ==
    \E i \in 2..(Len(q) - 1) : q[i] = " " /\ q[i - 1] # " " /\ q[i + 1] # " "

\* the scored call: HTTP 200, page read, no soft-404 marker
Scored == scDone /\ scResult.found /\ scResp.kind = "http" /\ scResp.status = 200

LowBio == toLowerCase(bioOf(scResp))
LowTitle == toLowerCase(scResp.title)
LocSatisfied == locationMatched(scMeta, LowBio, LowTitle)
AgeSatisfied == ageMatched(scMeta, LowBio, LowTitle)
GenderSatisfied == genderMatched(scMeta, LowBio, LowTitle)
PersonSatisfied == personMarked(LowBio, LowTitle)

SatisfiedCount ==
    (IF LocSatisfied THEN 1 ELSE 0) + (IF AgeSatisfied THEN 1 ELSE 0)
    + (IF GenderSatisfied THEN 1 ELSE 0) + (IF PersonSatisfied THEN 1 ELSE 0)

NoMetadata ==
    /\ ~Truthy(scMeta.location)
    /\ ~Truthy(scMeta.minAge) /\ ~Truthy(scMeta.maxAge)
    /\ ~Truthy(scMeta.gender) \/ scMeta.gender.s = Unspecified

KnownReasons == {"Profile Discovery", "Verified Location Match",
                 "Age Range Affinity Verified", "Gender Consistency"}

(***************************************************************************)
(* Properties                                                              *)
(***************************************************************************)

\* C1: whenever several scraped results share a URL, the one instance kept in
\* the final list is the one of maximum confidence among them.
C1_DedupKeepsMaxConfidence ==
    Success =>
        /\ \A i, j \in 1..Len(Results) : i # j => Results[i].url # Results[j].url
        /\ \A i \in 1..Len(Results) : \A k \in 1..Len(allResults) :
              allResults[k].found /\ allResults[k].url = Results[i].url
                 => Results[i].confidence >= allResults[k].confidence

\* C2: the final list is non-increasing in confidence, and results of equal
\* confidence appear in ascending URL order.
C2_RankedWithUrlTieBreak ==
    Success =>
        \A i, j \in 1..Len(Results) : i < j =>
            /\ Results[i].confidence >= Results[j].confidence
            /\ Results[i].confidence = Results[j].confidence
                  => LexLess(Results[i].url, Results[j].url)

\* C3: the dedup/rank stage returns the same list for every ordering of the
\* same collection of scraped results.
C3_OrderIndependent ==
    Success =>
        \A f \in Permutations(1..Len(allResults)) :
            rankStage(Permuted(allResults, f)) = Results

\* C4: no result with confidence below 30 is in the final list of a request.
C4_Threshold ==
    pc = "done" => \A i \in 1..Len(Results) : Results[i].confidence >= 30

\* C4 witness: a request answered with results while some scrape scored below 30
C4_Witness ==
    /\ Success
    /\ Len(Results) > 0
    /\ \E k \in 1..Len(allResults) : allResults[k].confidence < 30

\* C5: every result of scrapeProfile has confidence in [15,100] when found and
\* exactly 0 when not found.
C5_ScoreRange ==
    scDone =>
        /\ scResult.found => scResult.confidence >= 15 /\ scResult.confidence <= 100
        /\ ~scResult.found => scResult.confidence = 0

\* C5 witness: all four evidence checks succeed, so the sum 115 meets the cap
C5_Witness ==
    /\ Scored
    /\ LocSatisfied /\ AgeSatisfied /\ GenderSatisfied /\ PersonSatisfied
    /\ scResult.confidence = 100

C8_ReasonsMatchContributions ==
    Scored =>
        /\ Has(scResult.matchReasons, "Profile Discovery")
        /\ LocSatisfied <=> Has(scResult.matchReasons, "Verified Location Match")
        /\ AgeSatisfied <=> Has(scResult.matchReasons, "Age Range Affinity Verified")
        /\ GenderSatisfied <=> Has(scResult.matchReasons, "Gender Consistency")
        /\ PersonSatisfied <=>
              \E i \in 1..Len(scResult.matchReasons) :
                  scResult.matchReasons[i] \notin KnownReasons

\* C9: generateVariations returns at most N elements, N in [8,12], and they are
\* pairwise distinct.
C9_BoundedDistinct ==
    genVariant # "none" =>
        /\ Len(genOut) <= (IF genVariant = "v3" THEN VariationLimit ELSE VariationLimitV1)
        /\ Len(genOut) <= 12
        /\ VariationLimit \in 8..12 /\ VariationLimitV1 \in 8..12
        /\ Distinct(genOut)

\* C9 witness: a multi-token query, for which the v3.0 generator builds more
\* than twelve candidates and returns twelve
C9_Witness ==
    /\ genVariant = "v3"
    /\ MultiToken(genInput)
    /\ Len(genOut) = 12

\* C10 as stated: the first element returned by generateVariations is the
\* lowercased, trimmed query with all internal whitespace removed.
C10_JoinedFormFirst ==
    genVariant # "none" => genOut[1] = NoSeparatorJoined(genInput)

\* C10 as amended: the v3.0 generator returns the no-separator joined form
\* first; the first generator returns the lowercased, trimmed query itself
\* first, spaces kept, and the joined form first or second.
C10_JoinedFormFirstV3 ==
    /\ genVariant = "v3" => genOut[1] = NoSeparatorJoined(genInput)
    /\ genVariant = "v1" =>
          /\ genOut[1] = LowerTrimmed(genInput)
          /\ \E k \in 1..2 : k <= Len(genOut) /\ genOut[k] = NoSeparatorJoined(genInput)

\* C10 witness: a multi-token query with an upper-case letter through the v3.0
\* generator
C10_Witness ==
    /\ genVariant = "v3"
    /\ MultiToken(genInput)
    /\ Has(genInput, "B")
    /\ genOut[1] = NoSeparatorJoined(genInput)

(***************************************************************************)
(* Properties of the generator on the empty, stylized and suffixed forms   *)
(***************************************************************************)
HasHandleSep(q) == \E i \in 1..Len(q) : q[i] \in {".", "_", "-"}

\* the lowercased query with each of its '.', '_', '-' replaced by sep: its
\* parts re-joined with sep
Rejoined(q, sep) ==
    [i \in 1..Len(q) |-> IF q[i] \in {".", "_", "-"} THEN sep ELSE LowerChar(q[i])]

PopularSuffixes == << <<"o","f","f","i","c","i","a","l">>, <<"1","2","3">>,
                      <<"r","e","a","l">>, <<"h","q">> >>

\* C11: generateVariations returns a list for every string input, and for the
\* empty string it returns exactly one variation, the empty string.
C11_EmptyYieldsEmpty ==
    genVariant = "v3" =>
        /\ Len(genOut) >= 1
        /\ genInput = <<>> => genOut = << <<>> >>

\* C12: for every query that contains '.', '_' or '-', the returned variations
\* include the parts split on those characters re-joined with each of '.', '_'
\* and '-'.
C12_StylizedRejoined ==
    genVariant = "v3" /\ HasHandleSep(genInput) =>
        \A sep \in {".", "_", "-"} : Has(genOut, Rejoined(genInput, sep))

\* C13: for every query, single-word or multi-word, the variations of the first
\* generator include the space-removed query followed by each of the suffixes
\* 'official', '123', 'real' and 'hq'.
C13_PopularSuffixes ==
    genVariant = "v1" =>
        \A k \in 1..Len(PopularSuffixes) :
            Has(genOut, NoSeparatorJoined(genInput) \o PopularSuffixes[k])

(***************************************************************************)
(* Properties of one search request: faults, waiting, vectors              *)
(***************************************************************************)
\* the body was parsed and carries a non-empty query
ValidRequest == request.ok /\ request.query.def /\ request.query.s # <<>>

\* the results the scrape tasks of the request returned
TaskResults ==
    {scrapeTasks[i].result : i \in 1..Len(scrapeTasks)}
    \cup {extraChecks[j].result : j \in 1..Len(extraChecks)}

\* the results in the order the tasks were pushed
TaskResultsInOrder ==
    [i \in 1..Len(scrapeTasks) |-> scrapeTasks[i].result]
    \o [j \in 1..Len(extraChecks) |-> extraChecks[j].result]

Published(r) == r.found /\ r.confidence >= 30

Listed(r) ==
    \E i \in 1..Len(Results) : Results[i].platform = r.platform /\ Results[i].url = r.url

Pending(tasks) == \E i \in 1..Len(tasks) : ~tasks[i].done

TasksOfPlatform(p) == SelectSeq(scrapeTasks, LAMBDA t : t.platform = p)

\* the last path segment of a discovered link
Handle(link) == link.path[Len(link.path)]

C15_EventuallyResponds == <>(pc = "done")

\* C16: the response is produced only after every discovery and scrape task of
\* the request has completed, and it is the ranking of all their results,
\* whatever the order in which the tasks completed.
C16_WaitForAll ==
    /\ pc \in {"coreScrape", "extraScrape"} \/ Success => ~Pending(discoveryResults)
    /\ pc = "extraScrape" \/ Success => ~Pending(scrapeTasks)
    /\ Success =>
          /\ ~Pending(extraChecks)
          /\ Len(discoveryResults) = Len(corePlatforms)
          /\ Len(extraChecks) = Len(extraPlatforms)
          /\ Results = rankStage(TaskResultsInOrder)

\* C16 witness: a request with several core scrapes and an extra scrape,
\* answered with two results or more
C16_Witness ==
    /\ Success
    /\ Len(scrapeTasks) >= 2 /\ Len(extraChecks) >= 1
    /\ Len(Results) >= 2

QueryMissing == request.ok /\ (~request.query.def \/ request.query.s = <<>>)

\* C18: a request whose query is missing or empty is answered at once with an
\* error and a non-2xx status: no variation is generated and no discovery call
\* or profile fetch is issued.
C18_ValidationFirst ==
    QueryMissing =>
        /\ pc = "done"
        /\ response.status \notin 200..299 /\ response.status = 400
        /\ response.error # "" /\ response.results = <<>>
        /\ mainVariation = <<>>
        /\ discoveryResults = <<>> /\ scrapeTasks = <<>> /\ extraChecks = <<>>

\* C18 witness: a parsed body whose query is the empty string, answered 400
C18_Witness ==
    /\ pc = "done"
    /\ request.ok /\ request.query.def /\ request.query.s = <<>>
    /\ response.status = 400

\* C19: scrapeProfile returns a result for every network failure, timeout or
\* parse error of its fetch, and that result has found false, confidence 0 and
\* no reasons.
C19_FailureIsNotFound ==
    scDone /\ scResp.kind \in {"error", "readError"} =>
        /\ ~scResult.found
        /\ scResult.confidence = 0
        /\ scResult.matchReasons = <<>>
        /\ scResult.scrapedBio = <<>>

\* C19 witness: a page that answered 200 with matching content and whose read
\* or parse threw, returned as not found
C19_Witness ==
    /\ scDone
    /\ scResp.kind = "readError"
    /\ LocSatisfied /\ PersonSatisfied
    /\ ~scResult.found

\* C20: HTTP 404 yields found false; HTTP 401 or 403 yields found true with
\* the fixed restricted marker, confidence 50 and nothing derived from the
\* content; every other non-200 status yields found false.
C20_StatusClassification ==
    scDone /\ scResp.kind = "http" =>
        /\ scResp.status = 404 => ~scResult.found /\ scResult.confidence = 0
        /\ scResp.status \in {401, 403} =>
              /\ scResult.found
              /\ scResult.confidence = 50
              /\ scResult.scrapedBio = <<"Private Profile">>
              /\ scResult.matchReasons =
                    <<"Platform restricted access (Profile likely exists)">>
        /\ scResp.status \notin {200, 401, 403} =>
              ~scResult.found /\ scResult.confidence = 0

\* C20 witness: a 401 answer whose page carries the requested location and a
\* person marker, returned with the fixed marker at confidence 50
C20_Witness ==
    /\ scDone
    /\ scResp.kind = "http" /\ scResp.status = 401
    /\ LocSatisfied /\ PersonSatisfied
    /\ scResult.found /\ scResult.confidence = 50

(***************************************************************************)
(* Properties of the soft-404 override and of searchDiscovery              *)
(***************************************************************************)
HasSoftMarker(text) ==
    \E i \in 1..Len(soft404Markers) : IncludesSeq(text, soft404Markers[i])

\* the page answered 200, was read, and its title or the head of its body
\* holds a soft-404 marker
SoftMarked ==
    /\ scResp.kind = "http" /\ scResp.status = 200
    /\ HasSoftMarker(LowTitle) \/ HasSoftMarker(BodyHead(scResp.body))

\* C21: a page that answers 200 and holds a soft-404 marker in its title or in
\* the first 1000 characters of its body text is returned as not found, with
\* confidence 0 and no reasons, whatever evidence the page also carries.
C21_SoftNotFound ==
    scDone /\ SoftMarked =>
        /\ ~scResult.found
        /\ scResult.confidence = 0
        /\ scResult.matchReasons = <<>>

\* C21 witness: the marker sits in the body only, and the description carries
\* the requested location
C21_Witness ==
    /\ scDone /\ SoftMarked
    /\ ~HasSoftMarker(LowTitle)
    /\ LocSatisfied
    /\ ~scResult.found

\* the provider call of the searchDiscovery call did not succeed
ProviderFailed == ~ds.key \/ ds.out.kind \in {"throw", "errorPayload"}

NonProfileSegments == {<<"s","e","a","r","c","h">>, <<"l","o","g","i","n">>}

C23_DomainCapProfile ==
    ds.done =>
        /\ Len(ds.urls) <= 5 /\ Len(ds.urls) <= DiscoveryCap
        /\ \A k \in 1..Len(ds.urls) :
              /\ ds.urls[k].host = ds.platform.host
              /\ \A n \in 1..Len(ds.urls[k].path) :
                    ds.urls[k].path[n] \notin NonProfileSegments

(***************************************************************************)
(* Properties of the existence check                                       *)
(***************************************************************************)
LoginMarkers == {<<"l","o","g","i","n">>, <<"s","i","g","n"," ","i","n">>,
                 <<"s","i","g","n","u","p">>}

\* the body of the answer, lowercased, holds a login or signup marker
LoginWall == \E m \in LoginMarkers : IncludesSeq(toLowerCase(ck.resp.body), m)

\* C24: checkUsername counts a URL as found only if the status is in
\* [200,400) and the body holds no login or signup marker; a network error or
\* timeout gives not found.
C24_ExistenceRule ==
    ck.done =>
        /\ ck.result.found =>
              /\ ck.resp.kind = "http"
              /\ ck.resp.status >= 200 /\ ck.resp.status < 400
              /\ ~LoginWall
        /\ ck.resp.kind = "error" => ~ck.result.found

(***************************************************************************)
(* Properties of the scrapes a request issues                              *)
(***************************************************************************)
\* the platform and handle of each task, in push order
Scrapes(tasks) == [i \in 1..Len(tasks) |-> <<tasks[i].platform.name, tasks[i].username>>]

\* what the core scrapes are to be: per platform one scrape per discovered URL,
\* or the first variation when there is none
RECURSIVE ExpectedScrapes(_, _)
ExpectedScrapes(core, found) ==
    IF Len(core) = 0 THEN <<>>
    ELSE (IF Len(Head(found).urls) = 0
          THEN << <<Head(core).name, mainVariation>> >>
          ELSE [k \in 1..Len(Head(found).urls) |->
                   <<Head(core).name, Handle(Head(found).urls[k])>>])
         \o ExpectedScrapes(Tail(core), Tail(found))

\* C25: for every URL discovery returned, the URL fetched and reported in the
\* result of its scrape is that same URL.
C25_FetchesDiscoveredUrl ==
    Success =>
        \A i \in 1..Len(corePlatforms) :
            LET ts == TasksOfPlatform(corePlatforms[i])
                urls == discoveryResults[i].urls
            IN \A k \in 1..Len(urls) :
                  k <= Len(ts) => ts[k].result.url = LinkString(urls[k])

\* C26: for each core platform the first variation is scraped as a fallback
\* if and only if discovery returned no URL, otherwise exactly one scrape per
\* discovered URL is issued; every other platform gets exactly one scrape, of
\* the first variation.
C26_ScrapesIssued ==
    /\ pc \in {"coreScrape", "extraScrape"} \/ Success =>
          /\ Scrapes(scrapeTasks) = ExpectedScrapes(corePlatforms, discoveryResults)
          /\ \A i \in 1..Len(corePlatforms) : corePlatforms[i].name \in coreNames
          /\ \A j \in 1..Len(extraPlatforms) : extraPlatforms[j].name \notin coreNames
    /\ pc = "extraScrape" \/ Success =>
          Scrapes(extraChecks) =
              [j \in 1..Len(extraPlatforms) |-> <<extraPlatforms[j].name, mainVariation>>]

\* C26 witness: discovery returned two URLs for a platform, neither with the
\* first variation as its handle, and no URL for another platform
C26_Witness ==
    /\ Success
    /\ Len(extraChecks) >= 1
    /\ \E i, j \in 1..Len(discoveryResults) :
          /\ Len(discoveryResults[i].urls) = 2
          /\ Handle(discoveryResults[i].urls[1]) # mainVariation
          /\ Len(discoveryResults[j].urls) = 0
          /\ \A t \in 1..Len(scrapeTasks) :
                scrapeTasks[t].platform = corePlatforms[i]
                   => scrapeTasks[t].username # mainVariation

(***************************************************************************)
(* Properties of the final list                                            *)
(***************************************************************************)
\* C27: in the final list no two entries share platform and URL, every entry
\* has found true, and there are at most 35 entries.
C27_FinalList ==
    rk.done =>
        /\ Len(rk.output) <= 35
        /\ \A i \in 1..Len(rk.output) : rk.output[i].found
        /\ \A i, j \in 1..Len(rk.output) :
              i # j => \/ rk.output[i].platform # rk.output[j].platform
                       \/ rk.output[i].url # rk.output[j].url

\* C27 witness: a list of more than 35 results with 36 distinct URLs, one of
\* them twice, cut at 35
C27_Witness ==
    /\ rk.done
    /\ Len(rk.input) > 35
    /\ \E i, j \in 1..Len(rk.input) : i # j /\ rk.input[i].url = rk.input[j].url
    /\ Len(rk.output) = 35

(***************************************************************************)
(* Properties of the platform filter                                       *)
(***************************************************************************)
Named(name) == Has(request.platforms.list, name)

Filtered == pc # "idle" /\ ValidRequest /\ request.platforms.def

\* C28: when the request carries a list of platform names, discovery calls
\* and profile fetches are issued only for registry platforms named in the
\* list and every result's platform is in the list; an empty list yields a
\* success response with no results and no discovery call or fetch.
C28_PlatformFilter ==
    Filtered =>
        /\ Len(discoveryResults) = Len(corePlatforms)
        /\ \A i \in 1..Len(corePlatforms) : Named(corePlatforms[i].name)
        /\ \A i \in 1..Len(scrapeTasks) : Named(scrapeTasks[i].platform.name)
        /\ \A i \in 1..Len(extraChecks) : Named(extraChecks[i].platform.name)
        /\ pc = "done" => \A i \in 1..Len(Results) : Named(Results[i].platform)
        /\ request.platforms.list = <<>> =>
              /\ discoveryResults = <<>> /\ scrapeTasks = <<>> /\ extraChecks = <<>>
              /\ pc = "done" => response.status = 200 /\ Results = <<>>

\* C28 witness: a search restricted to Instagram that returns a result
C28_Witness ==
    /\ Success
    /\ request.platforms.def /\ request.platforms.list = <<"Instagram">>
    /\ Len(Results) > 0

(***************************************************************************)
(* Properties of the score                                                 *)
(***************************************************************************)
\* the page answered 200, was read, and holds no soft-404 marker
CleanPage == scResp.kind = "http" /\ scResp.status = 200 /\ ~SoftMarked

Indicator(b) == IF b THEN 1 ELSE 0

\* the evidence checks that metadata m satisfies on the fetched page with its
\* title replaced by t
ChecksOn(m, t) ==
    LET lowTitle == toLowerCase(t)
    IN {c \in {"location", "age", "gender", "person"} :
          \/ c = "location" /\ locationMatched(m, LowBio, lowTitle)
          \/ c = "age" /\ ageMatched(m, LowBio, lowTitle)
          \/ c = "gender" /\ genderMatched(m, LowBio, lowTitle)
          \/ c = "person" /\ personMarked(LowBio, lowTitle)}

\* the calls that differ from this one by one more item of evidence asked
\* for or shown: a location, an age range, a gender, a person marker
OneStepAway ==
    {[m |-> [scMeta EXCEPT !.location = Str(<<"L","o","n","d","o","n">>)], t |-> scResp.title],
     [m |-> [scMeta EXCEPT !.minAge = Str(<<"1","8">>)], t |-> scResp.title],
     [m |-> [scMeta EXCEPT !.gender = Str(<<"m","a","l","e">>)], t |-> scResp.title],
     [m |-> scMeta, t |-> <<"P","r","o","f","i","l","e"," ","o","f"," ","A","n","n">>]}

C30_OneRequestThenIdle ==
    /\ [](Len(ui.calls) <= 1)
    /\ ui.isLoading ~> ~ui.isLoading

====
